---- MODULE Spec2Model ----
(***************************************************************************)
(* Slide2Jira: the batch pipeline of AsyncPowerPointToJiraProcessor        *)
(* (classify -> convert -> extract -> analyze -> create -> attach), the    *)
(* semaphore-gated fan-out of AsyncAIAnalyzer and AsyncJiraClient, and the *)
(* temporary workspace of temp_workdir.                                    *)
(*                                                                         *)
(* External collaborators (python-pptx, LibreOffice, PyMuPDF, the vision   *)
(* model, the Jira REST API) are modelled by their outcomes, chosen        *)
(* nondeterministically where the code awaits or calls them.               *)
(***************************************************************************)
EXTENDS Integers, Sequences, FiniteSets, Bags, TLC

\* ------------------------------------------------------------------ bounds
\* Number of slides of the deck.
NumSlides == 3
\* Largest value of config.max_concurrent_requests that is explored (0..Max).
MaxConcurrent == 2
\* Largest number of lines of a slide text given to the detector on its own.
MaxLines == 2
\* Largest number of slide indices asked of the image extractor on its own.
MaxRequested == 2
\* Largest file size, and largest max_image_size_mb, given to the encoding loop.
MaxSizeMb == 3
\* Largest length, in characters, of an inference output given to the parser.
MaxContentLen == 3

\* ------------------------------------------------------------ Python values
\* Python's None.
None == "<None>"
\* Python truthiness of an Optional[str]: None and "" are falsy.
Truthy(v) == v # None /\ v # ""

\* The numbers of a set as a list in increasing order: the positions a list
\* comprehension with a condition keeps, in the order it keeps them.
RECURSIVE Ascending(_)
Ascending(S) ==
    IF S = {} THEN <<>>
    ELSE LET least == CHOOSE x \in S : \A y \in S : x <= y
         IN <<least>> \o Ascending(S \ {least})

\* The set of elements of a sequence.
Range(s) == {s[i] : i \in DOMAIN s}

\* ------------------------------------------------------------ config.py
\* A slide text is the sequence of its lines; a line is represented by the
\* marker it starts with (lower-cased, since every pattern is (?i) and anchored
\* at (?:^|\n)), or "other" when it starts with none of them.
ISSUE_PATTERNS == <<"issue:", "bug:", "db issue:", "coj issue:", "aj issue:", "new feature:">>

\* The dict literal, in insertion (= iteration) order, as (pattern, key) pairs.
ISSUE_PROJECT_RULES ==
    << <<"db issue:", "DB">>, <<"issue:", "AP">>, <<"bug:", "AP">>,
       <<"coj issue:", "COJ">>, <<"aj issue:", "AJ">>, <<"new feature:", "AP">> >>

\* No default: the detector falls through to None.
NoDefaultProjectKey == None

DEFAULT_PROJECT_KEY == "AP"

\* ------------------------------------------------------ slide_detector.py
\* re.search(pattern, slide_text): some line starts with the marker.
ReSearch(pattern, slide_text) == \E i \in DOMAIN slide_text : slide_text[i] = pattern

\* The last rule, in declaration order, from rule i on, whose pattern matches.
LastRule(slide_text, i) ==
    LET matching == {r \in i..Len(ISSUE_PROJECT_RULES) :
                       ReSearch(ISSUE_PROJECT_RULES[r][1], slide_text)}
    IN IF matching = {} THEN 0 ELSE CHOOSE r \in matching : \A q \in matching : q <= r

\* The first rule, in declaration order, whose pattern matches (0 when none).
RECURSIVE FirstRule(_, _)
FirstRule(slide_text, i) ==
    IF i > Len(ISSUE_PROJECT_RULES) THEN 0
    ELSE IF ReSearch(ISSUE_PROJECT_RULES[i][1], slide_text) THEN i
    ELSE FirstRule(slide_text, i + 1)

\* The classification made from the routing rules alone.
DetectByRulesOnly(detector_patterns, slide_text) ==
    IF FirstRule(slide_text, 1) # 0
    THEN ISSUE_PROJECT_RULES[FirstRule(slide_text, 1)][2]
    ELSE None

\* SlideDetector._detect_issue_and_project with self.patterns = detector_patterns.
DetectIssueAndProject(detector_patterns, slide_text) ==
    IF ~ \E p \in DOMAIN detector_patterns : ReSearch(detector_patterns[p], slide_text)
    THEN None
    ELSE IF FirstRule(slide_text, 1) # 0
         THEN ISSUE_PROJECT_RULES[FirstRule(slide_text, 1)][2]
         ELSE DEFAULT_PROJECT_KEY

\* SlideDetector.__init__, line 17: "patterns or ISSUE_PATTERNS".  The
\* argument is a list; the empty list stands for both falsy arguments, None
\* (the default) and [].
SlideDetectorPatterns(patterns_arg) ==
    IF patterns_arg = <<>> THEN ISSUE_PATTERNS ELSE patterns_arg

\* find_issue_slides numbering the slides it emits 1, 2, ... as it emits them.
FindIssueSlidesRenumbered(detector_patterns, slides) ==
    LET IsIssue(i) == DetectIssueAndProject(detector_patterns, slides[i]) # None
        idxs == Ascending({i \in DOMAIN slides : IsIssue(i)})
    IN [k \in DOMAIN idxs |->
          <<k, slides[idxs[k]],
            DetectIssueAndProject(detector_patterns, slides[idxs[k]])>>]

\* SlideDetector.find_issue_slides of a detector whose self.patterns is
\* detector_patterns: the tuples it yields (line 29), (idx, slide,
\* project_key), for every slide whose classification is not None, idx
\* 1-based, in deck order.
FindIssueSlides(detector_patterns, slides) ==
    LET IsIssue(i) == DetectIssueAndProject(detector_patterns, slides[i]) # None
        idxs == Ascending({i \in DOMAIN slides : IsIssue(i)})
    IN [k \in DOMAIN idxs |->
          <<idxs[k], slides[idxs[k]],
            DetectIssueAndProject(detector_patterns, slides[idxs[k]])>>]

\* ------------------------------------------------------ image_extractor.py
\* An extractor whose loop ends at the first slide it cannot render.
ExtractUntilFailure(slide_numbers, pages, bad) ==
    LET Good(i) == ~(slide_numbers[i] - 1 >= pages) /\ slide_numbers[i] \notin bad
        Kept(i) == /\ \A j \in 1..i : Good(j)
                   /\ \A j \in 1..(i - 1) : slide_numbers[j] # slide_numbers[i]
        idxs == Ascending({i \in DOMAIN slide_numbers : Kept(i)})
    IN [k \in DOMAIN idxs |-> slide_numbers[idxs[k]]]

\* An extractor that renders every page of the PDF, asked for or not.
ExtractEveryPage(slide_numbers, pages, bad) ==
    LET idxs == Ascending({p \in 1..pages : p \notin bad})
    IN [k \in DOMAIN idxs |-> idxs[k]]
\* ImageExtractor.extract_slide_images: the keys of the returned dict, in
\* insertion order.  pages = len(doc); bad = the slides whose
\* _extract_single_slide returned None.
\* A slide asked for twice has one key, at the place of its first insertion.
ExtractSlideImages(slide_numbers, pages, bad) ==
    LET Kept(i) == /\ ~(slide_numbers[i] - 1 >= pages)
                   /\ slide_numbers[i] \notin bad
                   /\ \A j \in 1..(i - 1) : slide_numbers[j] # slide_numbers[i]
        idxs == Ascending({i \in DOMAIN slide_numbers : Kept(i)})
    IN [k \in DOMAIN idxs |-> slide_numbers[idxs[k]]]

\* config.py lines 11 and 13.
DEFAULT_JPEG_QUALITY == 85

MIN_JPEG_QUALITY == 60

\* image_extractor.py line 81, "quality -= 10".
QualityStep == 10

\* The qualities the loop can hold: 85 and what the step makes of it, down to
\* the first value under MIN_JPEG_QUALITY.
Qualities ==
    {q \in (MIN_JPEG_QUALITY - QualityStep)..DEFAULT_JPEG_QUALITY :
        (DEFAULT_JPEG_QUALITY - q) % QualityStep = 0}

\* --------------------------------------------------------- ai_analyzer.py
\* The answer of the vision model as the pipeline specifications fix it: a
\* JSON object with a title.
WellFormed == <<"{", "t", "}">>

\* The SlideAnalysis dataclass, lines 19-29, as analyze_slide constructs it:
\* jira_key is not passed and takes its default, None.
SlideAnalysis(slide_number, title, description, priority, issue_type, labels, project_key) ==
    [slide_number |-> slide_number, title |-> title, description |-> description,
     priority |-> priority, issue_type |-> issue_type, labels |-> labels,
     project_key |-> project_key, jira_key |-> None]

\* A text is a sequence of characters.  The characters of an inference output:
\* the two braces, "t" for a whole member "title": "T", the comma, and "x" for
\* any character of prose.
ContentChars == {"{", "}", "t", ",", "x"}

\* str.find(c): the 0-based position of the first occurrence, -1 when none.
Find(str, c) ==
    IF \E i \in DOMAIN str : str[i] = c
    THEN (CHOOSE i \in DOMAIN str : str[i] = c /\ \A j \in 1..(i - 1) : str[j] # c) - 1
    ELSE -1

\* str.rfind(c): the 0-based position of the last occurrence, -1 when none.
RFind(str, c) ==
    IF \E i \in DOMAIN str : str[i] = c
    THEN (CHOOSE i \in DOMAIN str : str[i] = c /\ \A j \in (i + 1)..Len(str) : str[j] # c) - 1
    ELSE -1

\* A slice bound as Python normalises it: a negative bound counts from the
\* end, and the result is clipped to 0..len.
SliceBound(len, bound) ==
    IF bound < 0 THEN (IF len + bound < 0 THEN 0 ELSE len + bound)
    ELSE IF bound > len THEN len ELSE bound

\* str[start:stop].
Slice(str, start, stop) ==
    LET a == SliceBound(Len(str), start)
        b == SliceBound(Len(str), stop)
    IN IF a >= b THEN <<>> ELSE SubSeq(str, a + 1, b)

\* json.loads(json_str) returns instead of raising JSONDecodeError: over
\* ContentChars the JSON documents are the objects "{" members "}", the
\* members being none, or "t" separated by commas.
JsonDecodes(json_str) ==
    /\ Len(json_str) >= 2
    /\ json_str[1] = "{"
    /\ json_str[Len(json_str)] = "}"
    /\ LET inner == SubSeq(json_str, 2, Len(json_str) - 1)
       IN \/ inner = <<>>
          \/ /\ Len(inner) % 2 = 1
             /\ \A i \in DOMAIN inner : inner[i] = (IF i % 2 = 1 THEN "t" ELSE ",")

\* What json.loads(json_str) returns for a document: a dict, which has the
\* key "title" when the object has a member.
JsonLoads(json_str) ==
    IF \E i \in DOMAIN json_str : json_str[i] = "t" THEN [title |-> "T"] ELSE <<>>

\* dict.get(key, default).
DictGet(dict, key, default) == IF key \in DOMAIN dict THEN dict[key] ELSE default

\* f'Issue from Slide {slide_num}'.
TitleFromSlide(slide_num) == "Issue from Slide " \o ToString(slide_num)

\* f"slide-{slide_num}".
SlideLabel(slide_num) == "slide-" \o ToString(slide_num)

\* _parse_response's except branch, lines 286-292.
FallbackDict(content, slide_num) ==
    [title |-> TitleFromSlide(slide_num), description |-> content, priority |-> "Medium",
     issue_type |-> "Task", labels |-> <<SlideLabel(slide_num)>>]

\* _parse_response with an empty dict in place of the except branch's dict.
ParseResponseEmptyOnFailure(content, slide_num) ==
    LET json_start == Find(content, "{")
        json_end == RFind(content, "}") + 1
        json_str == Slice(content, json_start, json_end)
    IN IF JsonDecodes(json_str) THEN JsonLoads(json_str) ELSE <<>>

\* _parse_response, lines 277-292.
ParseResponse(content, slide_num) ==
    LET json_start == Find(content, "{")
        json_end == RFind(content, "}") + 1
        json_str == Slice(content, json_start, json_end)
    IN IF JsonDecodes(json_str) THEN JsonLoads(json_str)
       ELSE FallbackDict(content, slide_num)

\* analyze_slide lines 225-233: the SlideAnalysis built from the parsed dict.
AnalysisFromDict(analysis_dict, slide_num, project_key) ==
    SlideAnalysis(slide_num,
                  DictGet(analysis_dict, "title", TitleFromSlide(slide_num)),
                  DictGet(analysis_dict, "description", <<>>),
                  DictGet(analysis_dict, "priority", "Medium"),
                  DictGet(analysis_dict, "issue_type", "Task"),
                  DictGet(analysis_dict, "labels", <<>>),
                  project_key)

\* analyze_slides_batch line 245: the per-slide lookup in slide_project_mapping.
\* A mapping is [is_none, dict]; None and the empty dict are both falsy.
PredeterminedProject(mapping, slide_num) ==
    IF mapping.is_none \/ DOMAIN mapping.dict = {} THEN None
    ELSE IF slide_num \in DOMAIN mapping.dict THEN mapping.dict[slide_num]
    ELSE None

\* AnalyzeSlide with the two sources of the key tried in the other order.
AnalyzeSlidePreferringRule(manual_project_key, content, slide_num, predetermined_project_key) ==
    AnalysisFromDict(ParseResponse(content, slide_num), slide_num,
                     IF Truthy(predetermined_project_key) THEN predetermined_project_key
                     ELSE manual_project_key)

\* analyze_slide lines 215-233, once the model has answered content: the
\* parse, then the manual override or the pre-determined project key.
AnalyzeSlide(manual_project_key, content, slide_num, predetermined_project_key) ==
    AnalysisFromDict(ParseResponse(content, slide_num), slide_num,
                     IF Truthy(manual_project_key) THEN manual_project_key
                     ELSE predetermined_project_key)

\* analyze_slides_batch lines 248-251: one task per item of slide_images.
AnalyzeTasks(images) ==
    [i \in DOMAIN images |-> [slide_num |-> images[i], state |-> "queued", result |-> None]]

\* --------------------------------------------------------- jira_client.py
\* The key the ticket store answers a successful create with.
IssueKey(slide_num) == "TICKET-" \o ToString(slide_num)

\* create_issues_batch line 102: one task per analysis.
CreateTasks(list) ==
    [i \in DOMAIN list |-> [state |-> "queued", ret |-> 0]]

\* GatherCreated keeping only the analyses whose ticket was created.
GatherCreatedDroppingFailed(list, tasks) ==
    LET Ok(i) == tasks[i].state = "ok"
        idxs == Ascending({i \in DOMAIN tasks : Ok(i)})
    IN [k \in DOMAIN idxs |-> list[tasks[idxs[k]].ret]]

\* GatherCreated handing back records whose ticket key is blank again.
GatherCreatedUnfiled(list, tasks) ==
    [i \in DOMAIN tasks |-> [list[tasks[i].ret] EXCEPT !.jira_key = None]]

\* create_issues_batch line 104: gather returns each task's return value, in
\* task order; a task returns the analysis object it was given.
GatherCreated(list, tasks) ==
    [i \in DOMAIN tasks |-> list[tasks[i].ret]]

\* The eligibility test without the look-up in slide_images.
EligibleWithKey(analysis, images) == Truthy(analysis.jira_key)

\* The test of lines 112 and 120: "a.jira_key and a.slide_number in
\* slide_images".
Eligible(analysis, images) ==
    Truthy(analysis.jira_key) /\ analysis.slide_number \in Range(images)

\* attach_images_batch line 120: the analyses that have a ticket key and a
\* rendered image (as indices into the list).
ValidAnalyses(list, images) ==
    Ascending({i \in DOMAIN list : Eligible(list[i], images)})

\* ------------------------------------------------------------------ state
VARIABLES
    config,                 \* ProcessingConfig: dry_run, debug, project_key, max_concurrent_requests
    patterns,               \* SlideDetector.patterns
    responses,              \* what ai_client.analyze_image answers for each slide
    exit_code,              \* what async_main returned ("0", "1"), None while it runs
    summary_printed,        \* whether async_main has called print_results
    conversion,             \* how convert_to_pdf's LibreOffice run ended, None before it
    completion_order,       \* the running analyze batch: its tasks in the order they finished
    workdir_existed,        \* whether the "<stem>_debug" directory existed before the run
    pdf_pages,              \* extract_slide_images on its own: len(doc)
    failing_pages,          \* extract_slide_images on its own: the slides whose extraction fails
    encoded_size,           \* _optimize_image_quality: the file size in MB at each quality
    quality,                \* _optimize_image_quality: the local quality, 0 before the call
    file_quality,           \* _optimize_image_quality: the quality of the file on disk, 0 if none
    deck,                   \* prs.slides: the text of each slide
    workdir,                \* whether the "<stem>_debug" directory exists
    pc,                     \* where process() (or the batch call under study) stands
    issue_slides,           \* process(): list(find_issue_slides(pptx_path))
    issue_slide_numbers,    \* process(): the list built at line 66
    slide_images,           \* process(): the keys of the slide_images dict, in insertion order
    slide_project_mapping,  \* analyze_slides_batch's second argument
    semaphore,              \* the value of the running batch's asyncio.Semaphore
    analyze_tasks,          \* analyze_slides_batch: the gathered tasks
    analyses,               \* process(): the list of SlideAnalysis objects
    create_tasks,           \* create_issues_batch: the gathered tasks
    attach_tasks,           \* attach_images_batch: the gathered tasks
    jira_posts,             \* the requests sent to the ticket store (a bag)
    results,                \* the value process() returned
    error                   \* the exception process() raised

\* The state of the image extractor when it is called on its own.
render_vars == <<pdf_pages, failing_pages, encoded_size, quality, file_quality>>

vars == <<config, patterns, responses, exit_code, summary_printed, conversion,
          completion_order, workdir_existed, render_vars, deck, workdir, pc, issue_slides, issue_slide_numbers, slide_images, slide_project_mapping,
          semaphore, analyze_tasks, analyses, create_tasks, attach_tasks, jira_posts,
          results, error>>

\* The slide texts a deck is drawn from: no marker, a generic marker, a routed one.
DeckTexts == { <<"other">>, <<"issue:">>, <<"other", "db issue:">> }

\* The values of config.project_key: unset, or a manual override.
OverrideKeys == {None, "OVR"}

NoMapping == [is_none |-> TRUE, dict |-> <<>>]

Configs ==
    [dry_run : BOOLEAN, debug : BOOLEAN, project_key : OverrideKeys,
     max_concurrent_requests : 0..MaxConcurrent]

\* main.py: the processor is constructed from the configuration; process() has
\* not been entered.  The "<stem>_debug" directory may be there already, left
\* by an earlier run.
Init ==
    /\ config \in Configs
    /\ deck \in [1..NumSlides -> DeckTexts]
    /\ patterns = SlideDetectorPatterns(<<>>)
    /\ responses = [i \in 1..NumSlides |-> WellFormed]
    /\ exit_code = None
    /\ summary_printed = FALSE
    /\ conversion = None
    /\ completion_order = <<>>
    /\ workdir_existed \in BOOLEAN
    /\ pdf_pages = 0
    /\ failing_pages = {}
    /\ encoded_size = <<>>
    /\ quality = 0
    /\ file_quality = 0
    /\ workdir = workdir_existed
    /\ pc = "start"
    /\ issue_slides = <<>>
    /\ issue_slide_numbers = <<>>
    /\ slide_images = <<>>
    /\ slide_project_mapping = NoMapping
    /\ semaphore = 0
    /\ analyze_tasks = <<>>
    /\ analyses = <<>>
    /\ create_tasks = <<>>
    /\ attach_tasks = <<>>
    /\ jira_posts = EmptyBag
    /\ results = <<>>
    /\ error = None

\* ------------------------------------------------------------ processor.py
\* Cleanup that never removes the directory.
CleanupNever(debug, exists) == exists

\* temp_workdir's finally clause: the directory is removed unless debug.
Cleanup(debug, exists) == IF ~debug THEN FALSE ELSE exists

\* process() returns value: the with-block is left, the workspace cleaned up.
Return(value) ==
    /\ pc' = "returned"
    /\ results' = value
    /\ workdir' = Cleanup(config.debug, workdir)
    /\ UNCHANGED error

\* An exception leaves process() (lines 101-103, then temp_workdir's finally).
Raise(exc) ==
    /\ pc' = "raised"
    /\ error' = exc
    /\ workdir' = Cleanup(config.debug, workdir)
    /\ UNCHANGED results

\* A payload that carries the record's own label list.
CreatePayloadRecordLabels(analysis) ==
    [op |-> "create", slide |-> analysis.slide_number,
     project |-> analysis.project_key, issue_key |-> None,
     labels |-> analysis.labels]

\* The request payload of create_issue (lines 26-42): its project, and its
\* labels, a copy of the record's list with f"slide-{n}" appended.
CreatePayload(analysis) ==
    [op |-> "create", slide |-> analysis.slide_number,
     project |-> analysis.project_key, issue_key |-> None,
     labels |-> Append(analysis.labels, SlideLabel(analysis.slide_number))]

\* The attachment upload of attach_image.
AttachRequest(analysis) ==
    [op |-> "attach", slide |-> analysis.slide_number,
     project |-> None, issue_key |-> analysis.jira_key]

\* CanAcquire without the test of the semaphore's value.
CanAcquireUnbounded(tasks, i) == tasks[i].state = "queued"

\* A semaphore that turns away the tasks beyond the first N instead of
\* making them wait.
CanAcquireWithinLimit(tasks, i) ==
    tasks[i].state = "queued" /\ semaphore > 0 /\ i <= config.max_concurrent_requests

\* "async with semaphore": a waiting task goes on when the semaphore's value
\* is positive.  Which waiting task gets a free slot is left open.
CanAcquire(tasks, i) == tasks[i].state = "queued" /\ semaphore > 0

\* gather returning as soon as one task has finished.
SomeDone(tasks) == \E i \in DOMAIN tasks : tasks[i].state \notin {"queued", "inflight"}

\* "await asyncio.gather(*tasks)" returns: every task has finished.
AllDone(tasks) == \A i \in DOMAIN tasks : tasks[i].state \notin {"queued", "inflight"}

\* with temp_workdir(...): lines 23-31, workdir.mkdir(exist_ok=True).
Enter ==
    /\ pc = "start"
    /\ workdir' = TRUE
    /\ pc' = "classify"
    /\ UNCHANGED <<config, patterns, responses, exit_code, summary_printed, conversion,
                   completion_order, workdir_existed, render_vars,
                   deck, issue_slides, issue_slide_numbers, slide_images, slide_project_mapping,
                   semaphore, analyze_tasks, analyses, create_tasks, attach_tasks,
                   jira_posts, results, error>>

\* Line 66, "for idx, _ in issue_slides": each element is unpacked into two
\* names, which raises ValueError (too many values to unpack) unless every
\* element has exactly two components.
CanUnpackPairs(slides) == \A k \in DOMAIN slides : Len(slides[k]) = 2

\* Line 66: the first component of every element.
IssueSlideNumbers(slides) == [k \in DOMAIN slides |-> slides[k][1]]

\* The test of line 62 that never finds the list empty.
NoIssueSlidesNever(slides) == FALSE

\* Line 62, "if not issue_slides".
NoIssueSlides(slides) == slides = <<>>

\* Step 1, lines 61-67: Presentation(pptx_path) may raise; no issue slide
\* returns the empty results; otherwise line 66 unpacks the tuples that
\* find_issue_slides yielded.
Classify ==
    /\ pc = "classify"
    /\ \E readable \in BOOLEAN :
         IF ~readable
         THEN Raise("DeckReadError") /\ UNCHANGED <<issue_slides, issue_slide_numbers>>
         ELSE /\ issue_slides' = FindIssueSlides(patterns, deck)
              /\ IF NoIssueSlides(FindIssueSlides(patterns, deck))
                 THEN Return(results) /\ UNCHANGED issue_slide_numbers
                 ELSE IF ~CanUnpackPairs(FindIssueSlides(patterns, deck))
                 THEN Raise("ValueError") /\ UNCHANGED issue_slide_numbers
                 ELSE /\ issue_slide_numbers' = IssueSlideNumbers(FindIssueSlides(patterns, deck))
                      /\ pc' = "convert"
                      /\ UNCHANGED <<workdir, results, error>>
    /\ UNCHANGED <<config, patterns, responses, exit_code, summary_printed, conversion,
                   completion_order, workdir_existed, render_vars,
                   deck, slide_images, slide_project_mapping, semaphore,
                   analyze_tasks, analyses, create_tasks, attach_tasks, jira_posts>>

\* The ways PDFConverter.convert_to_pdf ends (pdf_converter.py lines 36-62).
ConvertOutcomes == {"ok", "timeout", "nonzero_exit", "no_executable", "no_output_file"}

\* convert_to_pdf without the test of line 48 for the output file.
ConvertRaisesUnlessNoOutput(outcome) == outcome \notin {"ok", "no_output_file"}

\* pdf_converter.py lines 48-62: a timeout, a nonzero exit and a missing
\* executable are re-raised as RuntimeError, a missing output file raises one.
ConvertRaises(outcome) == outcome # "ok"

\* Step 2, line 70.
Convert ==
    /\ pc = "convert"
    /\ \E outcome \in ConvertOutcomes :
         /\ conversion' = outcome
         /\ IF ConvertRaises(outcome)
            THEN Raise("RuntimeError")
            ELSE pc' = "extract" /\ UNCHANGED <<workdir, results, error>>
    /\ UNCHANGED <<config, patterns, responses, exit_code, summary_printed,
                   completion_order, workdir_existed, render_vars,
                   deck, issue_slides, issue_slide_numbers, slide_images, slide_project_mapping,
                   semaphore, analyze_tasks, analyses, create_tasks, attach_tasks,
                   jira_posts>>

\* Step 3, lines 73-75: fitz.open may raise; the PDF has some number of pages;
\* any single page may fail to extract.
Extract ==
    /\ pc = "extract"
    /\ \E opened \in BOOLEAN, pages \in 0..Len(deck),
          bad \in SUBSET Range(issue_slide_numbers) :
         IF ~opened
         THEN Raise("PdfOpenError") /\ UNCHANGED slide_images
         ELSE /\ slide_images' = ExtractSlideImages(issue_slide_numbers, pages, bad)
              /\ pc' = "analyze"
              /\ UNCHANGED <<workdir, results, error>>
    /\ UNCHANGED <<config, patterns, responses, exit_code, summary_printed, conversion,
                   completion_order, workdir_existed, render_vars,
                   deck, issue_slides, issue_slide_numbers, slide_project_mapping, semaphore,
                   analyze_tasks, analyses, create_tasks, attach_tasks, jira_posts>>

\* ------------------------------------------------- analyze_slides_batch
\* ai_analyzer.py lines 241-254: a fresh semaphore, one task per slide image,
\* all handed to asyncio.gather.
DispatchAnalyze(mapping) ==
    /\ slide_project_mapping' = mapping
    /\ semaphore' = config.max_concurrent_requests
    /\ analyze_tasks' = AnalyzeTasks(slide_images)
    /\ pc' = "analyzing"

\* Step 4, line 81: process() passes slide_images only, so
\* slide_project_mapping takes its default, None.
AnalyzeBatch ==
    /\ pc = "analyze"
    /\ DispatchAnalyze(NoMapping)
    /\ UNCHANGED <<config, patterns, responses, exit_code, summary_printed, conversion,
                   completion_order, workdir_existed, render_vars,
                   deck, workdir, issue_slides, issue_slide_numbers, slide_images, analyses,
                   create_tasks, attach_tasks, jira_posts, results, error>>

\* analyze_with_semaphore enters "async with semaphore" (line 244) and
\* analyze_slide starts reading the image and calling the model.
AnalyzeStart(i) ==
    /\ pc = "analyzing"
    /\ i \in DOMAIN analyze_tasks
    /\ analyze_tasks[i].state = "queued"
    /\ CanAcquire(analyze_tasks, i)
    /\ semaphore' = semaphore - 1
    /\ analyze_tasks' = [analyze_tasks EXCEPT ![i].state = "inflight"]
    /\ UNCHANGED <<config, patterns, responses, exit_code, summary_printed, conversion,
                   completion_order, workdir_existed, render_vars,
                   deck, workdir, pc, issue_slides, issue_slide_numbers, slide_images,
                   slide_project_mapping, analyses, create_tasks, attach_tasks,
                   jira_posts, results, error>>

\* gather called without return_exceptions.
AnalyzeRaisesFirstException == FALSE

\* asyncio.gather(*tasks, return_exceptions=True), line 254: a task's
\* exception is collected as its result instead of being raised to the caller.
AnalyzeReturnExceptions == TRUE

\* analyze_slide ends (lines 212-237): with a SlideAnalysis, or with the
\* exception of the image read or of the inference call; the semaphore is
\* released either way.
AnalyzeFinish(i) ==
    /\ pc = "analyzing"
    /\ i \in DOMAIN analyze_tasks
    /\ analyze_tasks[i].state = "inflight"
    /\ semaphore' = semaphore + 1
    /\ \E ok \in BOOLEAN :
         IF ok
         THEN /\ analyze_tasks' =
                   [analyze_tasks EXCEPT
                      ![i].state = "ok",
                      ![i].result =
                         AnalyzeSlide(config.project_key,
                                      responses[analyze_tasks[i].slide_num],
                                      analyze_tasks[i].slide_num,
                                      PredeterminedProject(slide_project_mapping,
                                                           analyze_tasks[i].slide_num))]
              /\ UNCHANGED <<pc, workdir, results, error>>
         ELSE /\ analyze_tasks' = [analyze_tasks EXCEPT ![i].state = "failed"]
              /\ IF AnalyzeReturnExceptions
                 THEN UNCHANGED <<pc, workdir, results, error>>
                 ELSE Raise("AnalysisError")
    /\ completion_order' = Append(completion_order, i)
    /\ UNCHANGED <<config, patterns, responses, exit_code, summary_printed, conversion,
                   workdir_existed, render_vars,
                   deck, issue_slides, issue_slide_numbers, slide_images,
                   slide_project_mapping, analyses, create_tasks, attach_tasks,
                   jira_posts>>

\* The results that are not exceptions, in the order the tasks finished.
SuccessfulResultsAsCompleted(tasks) ==
    LET done == SelectSeq(completion_order, LAMBDA i : tasks[i].state = "ok")
    IN [k \in DOMAIN done |-> tasks[done[k]].result]

\* analyze_slides_batch lines 256-265: the gathered results that are not
\* exceptions, in task order.
SuccessfulResults(tasks) ==
    LET Ok(i) == tasks[i].state = "ok"
        idxs == Ascending({i \in DOMAIN tasks : Ok(i)})
    IN [k \in DOMAIN idxs |-> tasks[idxs[k]].result]

\* ShouldFile without the test of the list.
ShouldFileAnyList(dry_run, list) == ~dry_run

\* ShouldFile without the dry-run test.
ShouldFileIgnoringDryRun(dry_run, list) == list # <<>>

\* processor.py line 87: "if not self.config.dry_run and analyses".
ShouldFile(dry_run, list) == ~dry_run /\ list # <<>>

\* gather has every result (line 254); analyze_slides_batch returns the
\* successful ones and process() goes on: lines 83-99.
AnalyzeReturn ==
    /\ pc = "analyzing"
    /\ AllDone(analyze_tasks)
    /\ analyses' = SuccessfulResults(analyze_tasks)
    /\ IF ShouldFile(config.dry_run, SuccessfulResults(analyze_tasks))
       THEN pc' = "create" /\ UNCHANGED <<workdir, results, error>>
       ELSE Return(SuccessfulResults(analyze_tasks))
    /\ completion_order' = <<>>
    /\ UNCHANGED <<config, patterns, responses, exit_code, summary_printed, conversion,
                   workdir_existed, render_vars,
                   deck, issue_slides, issue_slide_numbers, slide_images, slide_project_mapping,
                   semaphore, analyze_tasks, create_tasks, attach_tasks, jira_posts>>

\* -------------------------------------------------- create_issues_batch
\* jira_client.py lines 89-104: a fresh semaphore, one task per analysis.
CreateBatch ==
    /\ pc = "create"
    /\ semaphore' = config.max_concurrent_requests
    /\ create_tasks' = CreateTasks(analyses)
    /\ pc' = "creating"
    /\ UNCHANGED <<config, patterns, responses, exit_code, summary_printed, conversion,
                   completion_order, workdir_existed, render_vars,
                   deck, workdir, issue_slides, issue_slide_numbers, slide_images,
                   slide_project_mapping, analyze_tasks, analyses, attach_tasks,
                   jira_posts, results, error>>

\* The validation written as "is None": an empty key passes.
ProjectKeyMissingNoneOnly(analysis) == analysis.project_key = None

\* create_issue's validation, line 30: "if not analysis.project_key".
ProjectKeyMissing(analysis) == ~Truthy(analysis.project_key)

\* create_with_semaphore's handler, lines 98-100: "except Exception" catches
\* whatever create_issue raises, the ValueError of line 31 as well as the
\* aiohttp.ClientError of line 59.
CaughtInCreateTask(exc) == exc \in {"ValueError", "ClientError"}

\* create_with_semaphore takes a slot and create_issue runs up to its first
\* await: it raises the ValueError of line 31 (the handler then returns the
\* analysis at once), or sends the POST of line 45.  An exception the handler
\* did not catch would leave gather (line 104, no return_exceptions),
\* create_issues_batch and process().
CreateStart(i) ==
    /\ pc = "creating"
    /\ i \in DOMAIN create_tasks
    /\ create_tasks[i].state = "queued"
    /\ CanAcquire(create_tasks, i)
    /\ IF ProjectKeyMissing(analyses[i])
       THEN /\ create_tasks' = [create_tasks EXCEPT ![i] = [state |-> "rejected", ret |-> i]]
            /\ UNCHANGED <<semaphore, jira_posts>>
            /\ IF CaughtInCreateTask("ValueError")
               THEN UNCHANGED <<pc, workdir, results, error>>
               ELSE Raise("ValueError")
       ELSE /\ create_tasks' = [create_tasks EXCEPT ![i].state = "inflight"]
            /\ semaphore' = semaphore - 1
            /\ jira_posts' = jira_posts (+) SetToBag({CreatePayload(analyses[i])})
            /\ UNCHANGED <<pc, workdir, results, error>>
    /\ UNCHANGED <<config, patterns, responses, exit_code, summary_printed, conversion,
                   completion_order, workdir_existed, render_vars,
                   deck, issue_slides, issue_slide_numbers, slide_images,
                   slide_project_mapping, analyze_tasks, analyses, attach_tasks>>

\* The POST answers: lines 51-55 and 96-97 set jira_key on the analysis object;
\* a failure is caught at line 98 and the analysis is returned as it is.
CreateFinish(i) ==
    /\ pc = "creating"
    /\ i \in DOMAIN create_tasks
    /\ create_tasks[i].state = "inflight"
    /\ semaphore' = semaphore + 1
    /\ \E ok \in BOOLEAN :
         IF ok
         THEN /\ analyses' = [analyses EXCEPT ![i].jira_key = IssueKey(analyses[i].slide_number)]
              /\ create_tasks' = [create_tasks EXCEPT ![i] = [state |-> "ok", ret |-> i]]
              /\ UNCHANGED <<pc, workdir, results, error>>
         ELSE /\ create_tasks' = [create_tasks EXCEPT ![i] = [state |-> "failed", ret |-> i]]
              /\ UNCHANGED analyses
              /\ IF CaughtInCreateTask("ClientError")
                 THEN UNCHANGED <<pc, workdir, results, error>>
                 ELSE Raise("ClientError")
    /\ UNCHANGED <<config, patterns, responses, exit_code, summary_printed, conversion,
                   completion_order, workdir_existed, render_vars,
                   deck, issue_slides, issue_slide_numbers, slide_images,
                   slide_project_mapping, analyze_tasks, attach_tasks, jira_posts>>

\* Line 104 returns the gathered list; process() rebinds analyses (line 91)
\* and goes on to Step 6.
CreateReturn ==
    /\ pc = "creating"
    /\ AllDone(create_tasks)
    /\ analyses' = GatherCreated(analyses, create_tasks)
    /\ pc' = "attach"
    /\ UNCHANGED <<config, patterns, responses, exit_code, summary_printed, conversion,
                   completion_order, workdir_existed, render_vars,
                   deck, workdir, issue_slides, issue_slide_numbers, slide_images,
                   slide_project_mapping, semaphore, analyze_tasks, create_tasks,
                   attach_tasks, jira_posts, results, error>>

\* -------------------------------------------------- attach_images_batch
\* attach_images_batch lines 120-121: one task per valid analysis.
AttachTasks(list, images) ==
    LET valid == ValidAnalyses(list, images)
    IN [k \in DOMAIN valid |-> [idx |-> valid[k], state |-> "queued"]]

\* Step 6, line 94, and jira_client.py lines 108-125.
AttachBatch ==
    /\ pc = "attach"
    /\ semaphore' = config.max_concurrent_requests
    /\ attach_tasks' = AttachTasks(analyses, slide_images)
    /\ pc' = "attaching"
    /\ UNCHANGED <<config, patterns, responses, exit_code, summary_printed, conversion,
                   completion_order, workdir_existed, render_vars,
                   deck, workdir, issue_slides, issue_slide_numbers, slide_images,
                   slide_project_mapping, analyze_tasks, analyses, create_tasks,
                   jira_posts, results, error>>

\* attach_with_semaphore, lines 112-113: the eligibility test is made again,
\* then a slot is taken and attach_image starts reading the file.
AttachStart(k) ==
    /\ pc = "attaching"
    /\ k \in DOMAIN attach_tasks
    /\ attach_tasks[k].state = "queued"
    /\ IF Eligible(analyses[attach_tasks[k].idx], slide_images)
       THEN /\ CanAcquire(attach_tasks, k)
            /\ semaphore' = semaphore - 1
            /\ attach_tasks' = [attach_tasks EXCEPT ![k].state = "inflight"]
       ELSE /\ attach_tasks' = [attach_tasks EXCEPT ![k].state = "skipped"]
            /\ UNCHANGED semaphore
    /\ UNCHANGED <<config, patterns, responses, exit_code, summary_printed, conversion,
                   completion_order, workdir_existed, render_vars,
                   deck, workdir, pc, issue_slides, issue_slide_numbers, slide_images,
                   slide_project_mapping, analyze_tasks, analyses, create_tasks,
                   jira_posts, results, error>>

\* The ways attach_image ends (lines 63-85); every failure is caught and logged.
AttachOutcomes == {"ok", "read_failed", "post_failed"}

\* A handler that catches the failure of the POST only.
CaughtInAttachImagePostOnly(outcome) == outcome = "post_failed"

\* attach_image's handler, lines 84-85: "except Exception" catches the failure
\* of the file read as well as that of the POST.
CaughtInAttachImage(outcome) == outcome \in {"read_failed", "post_failed"}

\* attach_image ends: the upload was sent unless reading the file failed.  An
\* exception that attach_image did not catch would end the task and be
\* collected by gather (line 125, return_exceptions=True).
AttachFinish(k) ==
    /\ pc = "attaching"
    /\ k \in DOMAIN attach_tasks
    /\ attach_tasks[k].state = "inflight"
    /\ semaphore' = semaphore + 1
    /\ \E outcome \in AttachOutcomes :
         /\ attach_tasks' =
              [attach_tasks EXCEPT
                 ![k].state = IF outcome = "ok" \/ CaughtInAttachImage(outcome)
                              THEN outcome ELSE "raised"]
         /\ jira_posts' = IF outcome = "read_failed" THEN jira_posts
                          ELSE jira_posts (+)
                               SetToBag({AttachRequest(analyses[attach_tasks[k].idx])})
    /\ UNCHANGED <<config, patterns, responses, exit_code, summary_printed, conversion,
                   completion_order, workdir_existed, render_vars,
                   deck, workdir, pc, issue_slides, issue_slide_numbers, slide_images,
                   slide_project_mapping, analyze_tasks, analyses, create_tasks,
                   results, error>>

\* gather (line 125) is done, or there was no task: attach_images_batch
\* returns and process() returns analyses (line 99).
AttachReturn ==
    /\ pc = "attaching"
    /\ AllDone(attach_tasks)
    /\ Return(analyses)
    /\ UNCHANGED <<config, patterns, responses, exit_code, summary_printed, conversion,
                   completion_order, workdir_existed, render_vars,
                   deck, issue_slides, issue_slide_numbers, slide_images, slide_project_mapping,
                   semaphore, analyze_tasks, analyses, create_tasks, attach_tasks,
                   jira_posts>>

\* ----------------------------------------------------------------- main.py
\* async_main lines 101-110: process() returned and print_results is called
\* before "return 0"; or process() raised and the handler returns 1.
AsyncMainReturn ==
    /\ pc \in {"returned", "raised"}
    /\ exit_code = None
    /\ IF pc = "returned"
       THEN summary_printed' = TRUE /\ exit_code' = "0"
       ELSE exit_code' = "1" /\ UNCHANGED summary_printed
    /\ UNCHANGED <<config, patterns, responses, conversion, deck, workdir, pc, issue_slides,
                   completion_order, workdir_existed, render_vars,
                   issue_slide_numbers, slide_images, slide_project_mapping, semaphore,
                   analyze_tasks, analyses, create_tasks, attach_tasks, jira_posts,
                   results, error>>

\* ---------------------------------------------------------- the pipeline
\* process() as it runs: whenever Step 1 finds an issue slide, line 66 raises,
\* so no run of process() gets to Step 2.
Next ==
    \/ Enter
    \/ Classify
    \/ AsyncMainReturn

Spec == Init /\ [][Next]_vars

\* Steps 2 to 6 (lines 69-99) as they are written, inside the workspace, from
\* the list of issue slides of line 61 and the list of their indices that
\* line 66 is there to build.
InitSteps ==
    /\ config \in Configs
    /\ deck \in [1..NumSlides -> DeckTexts]
    /\ patterns = SlideDetectorPatterns(<<>>)
    /\ responses = [i \in 1..NumSlides |-> WellFormed]
    /\ exit_code = None
    /\ summary_printed = FALSE
    /\ conversion = None
    /\ completion_order = <<>>
    /\ workdir_existed = FALSE
    /\ pdf_pages = 0
    /\ failing_pages = {}
    /\ encoded_size = <<>>
    /\ quality = 0
    /\ file_quality = 0
    /\ workdir = TRUE
    /\ pc = "convert"
    /\ issue_slides = FindIssueSlides(patterns, deck)
    /\ issue_slides # <<>>
    /\ issue_slide_numbers = IssueSlideNumbers(issue_slides)
    /\ slide_images = <<>>
    /\ slide_project_mapping = NoMapping
    /\ semaphore = 0
    /\ analyze_tasks = <<>>
    /\ analyses = <<>>
    /\ create_tasks = <<>>
    /\ attach_tasks = <<>>
    /\ jira_posts = EmptyBag
    /\ results = <<>>
    /\ error = None

NextSteps ==
    \/ Convert
    \/ Extract
    \/ AnalyzeBatch
    \/ \E i \in 1..NumSlides : AnalyzeStart(i)
    \/ \E i \in 1..NumSlides : AnalyzeFinish(i)
    \/ AnalyzeReturn
    \/ CreateBatch
    \/ \E i \in 1..NumSlides : CreateStart(i)
    \/ \E i \in 1..NumSlides : CreateFinish(i)
    \/ CreateReturn
    \/ AttachBatch
    \/ \E k \in 1..NumSlides : AttachStart(k)
    \/ \E k \in 1..NumSlides : AttachFinish(k)
    \/ AttachReturn
    \/ AsyncMainReturn

SpecSteps == InitSteps /\ [][NextSteps]_vars

\* --------------------------------- Steps 2 to 6 under a fair event loop
\* Steps 2 to 6 of a run that files tickets, with N >= 1.
InitLive ==
    /\ InitSteps
    /\ config.max_concurrent_requests >= 1
    /\ ~config.dry_run
    /\ ~config.debug
    /\ config.project_key = "OVR"
    /\ \A i \in DOMAIN deck : deck[i] = <<"issue:">>

\* The event loop runs every coroutine that can run, and every external call
\* eventually returns or fails: no step that stays possible is put off forever.
Fairness ==
    /\ WF_vars(Convert)
    /\ WF_vars(Extract)
    /\ WF_vars(AnalyzeBatch)
    /\ \A i \in 1..NumSlides : WF_vars(AnalyzeStart(i)) /\ WF_vars(AnalyzeFinish(i))
    /\ WF_vars(AnalyzeReturn)
    /\ WF_vars(CreateBatch)
    /\ \A i \in 1..NumSlides : WF_vars(CreateStart(i)) /\ WF_vars(CreateFinish(i))
    /\ WF_vars(CreateReturn)
    /\ WF_vars(AttachBatch)
    /\ \A k \in 1..NumSlides : WF_vars(AttachStart(k)) /\ WF_vars(AttachFinish(k))
    /\ WF_vars(AttachReturn)
    /\ WF_vars(AsyncMainReturn)

SpecLive == InitLive /\ [][NextSteps]_vars /\ Fairness

\* ---------------------------------------------- find_issue_slides, alone
\* What a line of a slide text can start with: a configured marker, a marker
\* of a custom detector pattern, or neither.
LineKinds == Range(ISSUE_PATTERNS) \cup {"todo:", "other"}

\* The slide texts of up to MaxLines lines.
SlideTexts == UNION {[1..n -> LineKinds] : n \in 0..MaxLines}

\* The patterns argument of SlideDetector(...): the default, or a custom list.
PatternArgs == {<<>>, <<"bug:">>, <<"todo:">>, <<"todo:", "coj issue:">>}

\* find_issue_slides is about to be called on a deck of one slide, by a
\* detector built with any patterns argument.
InitDetect ==
    /\ config \in [dry_run : {FALSE}, debug : {FALSE}, project_key : {None},
                   max_concurrent_requests : {1}]
    /\ deck \in [1..1 -> SlideTexts]
    /\ \E patterns_arg \in PatternArgs : patterns = SlideDetectorPatterns(patterns_arg)
    /\ responses = [i \in 1..NumSlides |-> WellFormed]
    /\ exit_code = None
    /\ summary_printed = FALSE
    /\ conversion = None
    /\ completion_order = <<>>
    /\ workdir_existed = FALSE
    /\ pdf_pages = 0
    /\ failing_pages = {}
    /\ encoded_size = <<>>
    /\ quality = 0
    /\ file_quality = 0
    /\ workdir = FALSE
    /\ pc = "find_call"
    /\ issue_slides = <<>>
    /\ issue_slide_numbers = <<>>
    /\ slide_images = <<>>
    /\ slide_project_mapping = NoMapping
    /\ semaphore = 0
    /\ analyze_tasks = <<>>
    /\ analyses = <<>>
    /\ create_tasks = <<>>
    /\ attach_tasks = <<>>
    /\ jira_posts = EmptyBag
    /\ results = <<>>
    /\ error = None

\* list(find_issue_slides(pptx_path)), slide_detector.py lines 25-29.
FindIssueSlidesCall ==
    /\ pc = "find_call"
    /\ issue_slides' = FindIssueSlides(patterns, deck)
    /\ pc' = "found"
    /\ UNCHANGED <<config, patterns, responses, exit_code, summary_printed, conversion,
                   completion_order, workdir_existed, render_vars,
                   deck, workdir, issue_slide_numbers, slide_images, slide_project_mapping,
                   semaphore, analyze_tasks, analyses, create_tasks, attach_tasks,
                   jira_posts, results, error>>

NextDetect == FindIssueSlidesCall

SpecDetect == InitDetect /\ [][NextDetect]_vars

\* ------------------------------------------ extract_slide_images, alone
\* The lists of slide indices that can be asked for: 1-based, up to
\* MaxRequested of them, in any order, repeated or beyond the deck.
RequestedLists == UNION {[1..n -> 1..(NumSlides + 1)] : n \in 0..MaxRequested}

\* extract_slide_images(pdf_path, slide_numbers, output_dir) is about to be
\* called on a PDF of any length, any of whose pages may fail to extract.
InitExtract ==
    /\ config \in [dry_run : {FALSE}, debug : {FALSE}, project_key : {None},
                   max_concurrent_requests : {1}]
    /\ deck = [i \in 1..NumSlides |-> <<"other">>]
    /\ patterns = SlideDetectorPatterns(<<>>)
    /\ responses = [i \in 1..NumSlides |-> WellFormed]
    /\ exit_code = None
    /\ summary_printed = FALSE
    /\ conversion = "ok"
    /\ completion_order = <<>>
    /\ workdir_existed = FALSE
    /\ pdf_pages \in 0..NumSlides
    /\ failing_pages \in SUBSET (1..NumSlides)
    /\ encoded_size = <<>>
    /\ quality = 0
    /\ file_quality = 0
    /\ workdir = TRUE
    /\ pc = "extract_call"
    /\ issue_slides = <<>>
    /\ issue_slide_numbers \in RequestedLists
    /\ slide_images = <<>>
    /\ slide_project_mapping = NoMapping
    /\ semaphore = 0
    /\ analyze_tasks = <<>>
    /\ analyses = <<>>
    /\ create_tasks = <<>>
    /\ attach_tasks = <<>>
    /\ jira_posts = EmptyBag
    /\ results = <<>>
    /\ error = None

\* extract_slide_images, lines 24-46: fitz.open may raise, and the exception
\* is logged and re-raised; otherwise the loop over slide_numbers fills the dict.
ExtractCall ==
    /\ pc = "extract_call"
    /\ \E opened \in BOOLEAN :
         IF ~opened
         THEN /\ pc' = "extract_raised"
              /\ error' = "PdfOpenError"
              /\ UNCHANGED slide_images
         ELSE /\ slide_images' =
                   ExtractSlideImages(issue_slide_numbers, pdf_pages, failing_pages)
              /\ pc' = "extracted"
              /\ UNCHANGED error
    /\ UNCHANGED <<config, patterns, responses, exit_code, summary_printed, conversion,
                   completion_order, workdir_existed, render_vars,
                   deck, workdir, issue_slides, issue_slide_numbers, slide_project_mapping,
                   semaphore, analyze_tasks, analyses, create_tasks, attach_tasks,
                   jira_posts, results>>

NextExtract == ExtractCall

SpecExtract == InitExtract /\ [][NextExtract]_vars

\* --------------------------------------- _optimize_image_quality, alone
\* _optimize_image_quality(pil_img, img_path) is about to be called on an
\* image that encodes to any size at each quality, under any size limit.
InitOptimize ==
    /\ config \in [dry_run : {FALSE}, debug : {FALSE}, project_key : {None},
                   max_concurrent_requests : {1}, max_image_size_mb : 1..MaxSizeMb]
    /\ deck = [i \in 1..NumSlides |-> <<"other">>]
    /\ patterns = SlideDetectorPatterns(<<>>)
    /\ responses = [i \in 1..NumSlides |-> WellFormed]
    /\ exit_code = None
    /\ summary_printed = FALSE
    /\ conversion = "ok"
    /\ completion_order = <<>>
    /\ workdir_existed = FALSE
    /\ pdf_pages = 1
    /\ failing_pages = {}
    /\ encoded_size \in [Qualities -> 1..MaxSizeMb]
    /\ quality = 0
    /\ file_quality = 0
    /\ workdir = TRUE
    /\ pc = "optimize_call"
    /\ issue_slides = <<>>
    /\ issue_slide_numbers = <<1>>
    /\ slide_images = <<>>
    /\ slide_project_mapping = NoMapping
    /\ semaphore = 0
    /\ analyze_tasks = <<>>
    /\ analyses = <<>>
    /\ create_tasks = <<>>
    /\ attach_tasks = <<>>
    /\ jira_posts = EmptyBag
    /\ results = <<>>
    /\ error = None

\* Line 73: quality = DEFAULT_JPEG_QUALITY.
OptimizeCall ==
    /\ pc = "optimize_call"
    /\ quality' = DEFAULT_JPEG_QUALITY
    /\ pc' = "while"
    /\ UNCHANGED <<config, patterns, responses, exit_code, summary_printed, conversion,
                   completion_order, workdir_existed, pdf_pages, failing_pages,
                   encoded_size, file_quality,
                   deck, workdir, issue_slides, issue_slide_numbers, slide_images,
                   slide_project_mapping, semaphore, analyze_tasks, analyses, create_tasks,
                   attach_tasks, jira_posts, results, error>>

\* One turn of the loop, lines 75-81: the image is saved at the current
\* quality; a file within the limit breaks the loop, a larger one lowers the
\* quality by the step.
EncodeStep ==
    /\ pc = "while"
    /\ quality >= MIN_JPEG_QUALITY
    /\ file_quality' = quality
    /\ IF encoded_size[quality] <= config.max_image_size_mb
       THEN pc' = "break" /\ UNCHANGED quality
       ELSE quality' = quality - QualityStep /\ UNCHANGED pc
    /\ UNCHANGED <<config, patterns, responses, exit_code, summary_printed, conversion,
                   completion_order, workdir_existed, pdf_pages, failing_pages,
                   encoded_size,
                   deck, workdir, issue_slides, issue_slide_numbers, slide_images,
                   slide_project_mapping, semaphore, analyze_tasks, analyses, create_tasks,
                   attach_tasks, jira_posts, results, error>>

\* Line 83, "return quality": after the break, or when the loop's test fails.
OptimizeReturn ==
    /\ \/ pc = "break"
       \/ pc = "while" /\ ~(quality >= MIN_JPEG_QUALITY)
    /\ pc' = "optimized"
    /\ UNCHANGED <<config, patterns, responses, exit_code, summary_printed, conversion,
                   completion_order, workdir_existed, render_vars,
                   deck, workdir, issue_slides, issue_slide_numbers, slide_images,
                   slide_project_mapping, semaphore, analyze_tasks, analyses, create_tasks,
                   attach_tasks, jira_posts, results, error>>

NextOptimize == OptimizeCall \/ EncodeStep \/ OptimizeReturn

SpecOptimize == InitOptimize /\ [][NextOptimize]_vars

\* ------------------------------------------- analyze_slides_batch, alone
\* The slide_project_mapping arguments: None, or a dict from some slides to a
\* project key.
Mappings ==
    {NoMapping} \cup
    {[is_none |-> FALSE, dict |-> d] :
        d \in UNION {[D -> {"AP", "DB"}] : D \in SUBSET (1..NumSlides)}}

\* analyze_slides_batch(slide_images, slide_project_mapping) is about to be
\* called on an analyzer built from any configuration.
InitAnalyze ==
    /\ config \in [dry_run : {FALSE}, debug : {FALSE}, project_key : {None, "", "OVR"},
                   max_concurrent_requests : 0..MaxConcurrent]
    /\ deck = [i \in 1..NumSlides |-> <<"other">>]
    /\ patterns = SlideDetectorPatterns(<<>>)
    /\ responses = [i \in 1..NumSlides |-> WellFormed]
    /\ exit_code = None
    /\ summary_printed = FALSE
    /\ conversion = None
    /\ completion_order = <<>>
    /\ workdir_existed = FALSE
    /\ pdf_pages = 0
    /\ failing_pages = {}
    /\ encoded_size = <<>>
    /\ quality = 0
    /\ file_quality = 0
    /\ workdir = TRUE
    /\ pc = "batch_call"
    /\ issue_slides = <<>>
    /\ issue_slide_numbers = <<>>
    /\ slide_images \in {Ascending(S) : S \in SUBSET (1..NumSlides)}
    /\ slide_project_mapping \in Mappings
    /\ semaphore = 0
    /\ analyze_tasks = <<>>
    /\ analyses = <<>>
    /\ create_tasks = <<>>
    /\ attach_tasks = <<>>
    /\ jira_posts = EmptyBag
    /\ results = <<>>
    /\ error = None

\* The call, with the mapping the caller supplies.
AnalyzeBatchCall ==
    /\ pc = "batch_call"
    /\ DispatchAnalyze(slide_project_mapping)
    /\ UNCHANGED <<config, patterns, responses, exit_code, summary_printed, conversion,
                   completion_order, workdir_existed, render_vars,
                   deck, workdir, issue_slides, issue_slide_numbers, slide_images, analyses,
                   create_tasks, attach_tasks, jira_posts, results, error>>

\* Lines 254-265: the batch returns its successful results to the caller.
AnalyzeBatchReturn ==
    /\ pc = "analyzing"
    /\ AllDone(analyze_tasks)
    /\ analyses' = SuccessfulResults(analyze_tasks)
    /\ pc' = "batch_returned"
    /\ UNCHANGED <<config, patterns, responses, exit_code, summary_printed, conversion,
                   completion_order, workdir_existed, render_vars,
                   deck, workdir, issue_slides, issue_slide_numbers, slide_images,
                   slide_project_mapping, semaphore, analyze_tasks, create_tasks,
                   attach_tasks, jira_posts, results, error>>

NextAnalyze ==
    \/ AnalyzeBatchCall
    \/ \E i \in 1..NumSlides : AnalyzeStart(i)
    \/ \E i \in 1..NumSlides : AnalyzeFinish(i)
    \/ AnalyzeBatchReturn

SpecAnalyze == InitAnalyze /\ [][NextAnalyze]_vars

\* ------------------------- analyze_slides_batch on any inference output
\* The inference outputs of up to MaxContentLen characters.
Contents == UNION {[1..n -> ContentChars] : n \in 0..MaxContentLen}

\* analyze_slides_batch is about to be called on one slide, or on it and one
\* other, and the model answers any output for that slide.
InitParse ==
    /\ config \in [dry_run : {FALSE}, debug : {FALSE}, project_key : {None},
                   max_concurrent_requests : {1}]
    /\ deck = [i \in 1..NumSlides |-> <<"other">>]
    /\ patterns = SlideDetectorPatterns(<<>>)
    /\ \E n \in 1..NumSlides :
         /\ \E content \in Contents :
              responses = [i \in 1..NumSlides |-> IF i = n THEN content ELSE WellFormed]
         /\ \E S \in SUBSET (1..NumSlides) :
              /\ n \in S
              /\ Cardinality(S) <= 2
              /\ slide_images = Ascending(S)
    /\ exit_code = None
    /\ summary_printed = FALSE
    /\ conversion = None
    /\ completion_order = <<>>
    /\ workdir_existed = FALSE
    /\ pdf_pages = 0
    /\ failing_pages = {}
    /\ encoded_size = <<>>
    /\ quality = 0
    /\ file_quality = 0
    /\ workdir = TRUE
    /\ pc = "batch_call"
    /\ issue_slides = <<>>
    /\ issue_slide_numbers = <<>>
    /\ slide_project_mapping = NoMapping
    /\ semaphore = 0
    /\ analyze_tasks = <<>>
    /\ analyses = <<>>
    /\ create_tasks = <<>>
    /\ attach_tasks = <<>>
    /\ jira_posts = EmptyBag
    /\ results = <<>>
    /\ error = None

SpecParse == InitParse /\ [][NextAnalyze]_vars

\* ------------------------------ Steps 5 and 6 from any list of analyses
\* The project keys an analysis can carry: none, empty, or a key.
FileProjectKeys == {None, "", "AP"}

\* create_issues_batch and then attach_images_batch are called the way lines
\* 91-99 call them, with any list of freshly analysed slides (jira_key still
\* None, as analyze_slide leaves it) and any slide_images.
InitFile ==
    /\ config \in [dry_run : {FALSE}, debug : {FALSE}, project_key : {None},
                   max_concurrent_requests : 0..MaxConcurrent]
    /\ deck = [i \in 1..NumSlides |-> <<"other">>]
    /\ patterns = SlideDetectorPatterns(<<>>)
    /\ responses = [i \in 1..NumSlides |-> WellFormed]
    /\ exit_code = None
    /\ summary_printed = FALSE
    /\ conversion = None
    /\ completion_order = <<>>
    /\ workdir_existed = FALSE
    /\ pdf_pages = 0
    /\ failing_pages = {}
    /\ encoded_size = <<>>
    /\ quality = 0
    /\ file_quality = 0
    /\ workdir = TRUE
    /\ pc = "create"
    /\ issue_slides = <<>>
    /\ issue_slide_numbers = <<>>
    /\ slide_images \in {Ascending(S) : S \in SUBSET (1..NumSlides)}
    /\ slide_project_mapping = NoMapping
    /\ semaphore = 0
    /\ analyze_tasks = <<>>
    /\ \E S \in SUBSET (1..NumSlides) :
         \E pk \in [S -> FileProjectKeys] :
            analyses = [k \in DOMAIN Ascending(S) |->
                          AnalyzeSlide(None, WellFormed, Ascending(S)[k],
                                       pk[Ascending(S)[k]])]
    /\ create_tasks = <<>>
    /\ attach_tasks = <<>>
    /\ jira_posts = EmptyBag
    /\ results = <<>>
    /\ error = None

NextFile ==
    \/ CreateBatch
    \/ \E i \in 1..NumSlides : CreateStart(i)
    \/ \E i \in 1..NumSlides : CreateFinish(i)
    \/ CreateReturn
    \/ AttachBatch
    \/ \E k \in 1..NumSlides : AttachStart(k)
    \/ \E k \in 1..NumSlides : AttachFinish(k)
    \/ AttachReturn

SpecFile == InitFile /\ [][NextFile]_vars

\* ------------------------- Steps 5 and 6 on records of either parse branch
\* What the model answered for a slide: a JSON object, or prose.
FrameContents == {WellFormed, <<"x">>}

\* create_issues_batch and then attach_images_batch are called on the
\* analyses of any slides, each built from a JSON answer (no label) or from
\* the parse fallback (label "slide-n"), all with a project key.
InitFrame ==
    /\ config \in [dry_run : {FALSE}, debug : {FALSE}, project_key : {None},
                   max_concurrent_requests : {1}]
    /\ deck = [i \in 1..NumSlides |-> <<"other">>]
    /\ patterns = SlideDetectorPatterns(<<>>)
    /\ responses \in [1..NumSlides -> FrameContents]
    /\ exit_code = None
    /\ summary_printed = FALSE
    /\ conversion = None
    /\ completion_order = <<>>
    /\ workdir_existed = FALSE
    /\ pdf_pages = 0
    /\ failing_pages = {}
    /\ encoded_size = <<>>
    /\ quality = 0
    /\ file_quality = 0
    /\ workdir = TRUE
    /\ pc = "create"
    /\ issue_slides = <<>>
    /\ issue_slide_numbers = <<>>
    /\ slide_images \in {Ascending(S) : S \in SUBSET (1..NumSlides)}
    /\ slide_project_mapping = NoMapping
    /\ semaphore = 0
    /\ analyze_tasks = <<>>
    /\ analyses = [k \in DOMAIN slide_images |->
                     AnalyzeSlide(None, responses[slide_images[k]], slide_images[k], "AP")]
    /\ create_tasks = <<>>
    /\ attach_tasks = <<>>
    /\ jira_posts = EmptyBag
    /\ results = <<>>
    /\ error = None

SpecFrame == InitFrame /\ [][NextFile]_vars

\* ================================================================ claims
\* The slides of the deck that the classifier reports as issue slides.
IssueSet == {i \in DOMAIN deck : DetectIssueAndProject(patterns, deck[i]) # None}

SlideNumbers(list) == [k \in DOMAIN list |-> list[k].slide_number]

InFlight(tasks) == Cardinality({i \in DOMAIN tasks : tasks[i].state = "inflight"})

\* The errors with which an external call fails process(): the deck cannot be
\* read, the conversion fails, the PDF cannot be opened.
ExternalErrors == {"DeckReadError", "RuntimeError", "PdfOpenError"}

\* No external call of the run has failed: no fatal external error, every
\* slide asked for was rendered, no inference call, ticket creation or
\* attachment failed.
NoExternalCallFailed ==
    /\ error \notin ExternalErrors
    /\ slide_images # <<>> => Range(slide_images) = Range(issue_slide_numbers)
    /\ \A i \in DOMAIN analyze_tasks : analyze_tasks[i].state # "failed"
    /\ \A i \in DOMAIN create_tasks : create_tasks[i].state # "failed"
    /\ \A k \in DOMAIN attach_tasks : attach_tasks[k].state \notin {"read_failed", "post_failed"}

\* C1: a run of process() that is not a dry run, has no override key and meets
\* no failing external call does not raise, and returns exactly one record per
\* issue slide, each with a ticket key, while nothing is rendered, analysed or
\* filed for any other slide.
C1_EndToEnd ==
    (/\ ~config.dry_run
     /\ ~Truthy(config.project_key)
     /\ NoExternalCallFailed)
    => /\ pc # "raised"
       /\ pc = "returned"
          => /\ SlideNumbers(results) = Ascending(IssueSet)
             /\ \A k \in DOMAIN results : Truthy(results[k].jira_key)
             /\ Range(slide_images) \subseteq IssueSet
             /\ \A p \in BagToSet(jira_posts) : p.slide \in IssueSet

C3_OverridePrecedence ==
    Truthy(config.project_key)
    => /\ \A i \in DOMAIN analyze_tasks :
            analyze_tasks[i].state = "ok"
            => analyze_tasks[i].result.project_key = config.project_key
       /\ \A k \in DOMAIN analyses : analyses[k].project_key = config.project_key

\* C3's case: the batch returned, under an override, a slide the mapping
\* routes elsewhere and a slide the mapping does not mention.
C3_Witness ==
    /\ pc = "batch_returned"
    /\ Truthy(config.project_key)
    /\ ~slide_project_mapping.is_none
    /\ \E k, m \in DOMAIN analyses :
         /\ analyses[k].slide_number \in DOMAIN slide_project_mapping.dict
         /\ slide_project_mapping.dict[analyses[k].slide_number] = "DB"
         /\ analyses[m].slide_number \notin DOMAIN slide_project_mapping.dict

\* C4: a failing inference call never raises out of the batch; when the batch
\* has returned every call was made, the slides of the returned records are
\* exactly the slides whose call did not fail, one record each.
C4_BatchIsolation ==
    /\ error # "AnalysisError"
    /\ pc = "batch_returned"
       => /\ \A i \in DOMAIN analyze_tasks : analyze_tasks[i].state \in {"ok", "failed"}
          /\ Len(analyses) = Len(analyze_tasks)
                - Cardinality({i \in DOMAIN analyze_tasks : analyze_tasks[i].state = "failed"})
          /\ \A i \in DOMAIN analyze_tasks :
               analyze_tasks[i].state = "failed"
               <=> ~ \E k \in DOMAIN analyses :
                       analyses[k].slide_number = analyze_tasks[i].slide_num

\* C4's case: three calls, exactly one failed, two records returned.
C4_Witness ==
    /\ pc = "batch_returned"
    /\ Len(analyze_tasks) = 3
    /\ Cardinality({i \in DOMAIN analyze_tasks : analyze_tasks[i].state = "failed"}) = 1
    /\ Len(analyses) = 2

\* C5: with a limit N >= 1, no batch stage ever has more than N calls in
\* flight, and every item of the stage has a task that is waiting, running or
\* finished: none is turned away for want of a slot.
C5_BoundedConcurrency ==
    config.max_concurrent_requests >= 1
    => /\ InFlight(analyze_tasks) <= config.max_concurrent_requests
       /\ InFlight(create_tasks) <= config.max_concurrent_requests
       /\ InFlight(attach_tasks) <= config.max_concurrent_requests
       /\ pc = "analyzing" => Len(analyze_tasks) = Len(slide_images)
       /\ pc = "creating" => Len(create_tasks) = Len(analyses)
       /\ pc = "attaching" => Len(attach_tasks) = Len(ValidAnalyses(analyses, slide_images))
       /\ \A i \in DOMAIN create_tasks :
            create_tasks[i].state = "rejected" => ~Truthy(analyses[i].project_key)

\* C5's case: the create stage runs N calls and a further item waits.
C5_Witness ==
    /\ config.max_concurrent_requests >= 1
    /\ pc = "creating"
    /\ InFlight(create_tasks) = config.max_concurrent_requests
    /\ \E i \in DOMAIN create_tasks : create_tasks[i].state = "queued"

\* C6: create_issue on an analysis whose project key is None or empty raises
\* and sends nothing: no create request ever carries a null or empty project.
C6_NoProjectNoTicket ==
    /\ \A p \in BagToSet(jira_posts) : p.op = "create" => Truthy(p.project)
    /\ \A i \in DOMAIN create_tasks :
         ~Truthy(analyses[i].project_key) => create_tasks[i].state \in {"queued", "rejected"}

\* C6's case: create_issue raised for an analysis with an empty project key,
\* beside one that was sent.
C6_Witness ==
    /\ \E i \in DOMAIN create_tasks :
         create_tasks[i].state = "rejected" /\ analyses[i].project_key = ""
    /\ \E j \in DOMAIN create_tasks : create_tasks[j].state = "ok"

\* C7: an analysis without a project key that reaches create_issues_batch
\* ends the batch with the error: once create_issue has raised its ValueError
\* the batch does not return, and neither the Attach stage nor the return of
\* lines 94-99 follows.
C7_ContractViolationFatal ==
    (\E i \in DOMAIN create_tasks : create_tasks[i].state = "rejected")
    => pc \notin {"attach", "attaching", "returned"}

\* C8: create_issues_batch never raises; it keeps the list's length, order and
\* records; a record changes only when its own create call succeeds; and on
\* return a record has a ticket key exactly when its own call succeeded.
C8_CreateFailureIsolation ==
    [][pc = "creating"
       => /\ pc' \in {"creating", "attach"}
          /\ Len(analyses') = Len(analyses)
          /\ \A i \in DOMAIN analyses :
               /\ analyses'[i].slide_number = analyses[i].slide_number
               /\ analyses'[i].project_key = analyses[i].project_key
               /\ analyses'[i] # analyses[i]
                  => create_tasks[i].state = "inflight" /\ create_tasks'[i].state = "ok"
          /\ pc' = "attach"
             => \A i \in DOMAIN analyses :
                  Truthy(analyses'[i].jira_key) <=> create_tasks[i].state = "ok"]_vars

\* C8's case: the batch returned with one failed and one successful create.
C8_Witness ==
    /\ pc = "attach"
    /\ \E i, j \in DOMAIN create_tasks :
         /\ create_tasks[i].state = "failed" /\ ~Truthy(analyses[i].jira_key)
         /\ create_tasks[j].state = "ok" /\ Truthy(analyses[j].jira_key)

C10_WorkspaceLifecycle ==
    pc \in {"returned", "raised"} => (workdir <=> config.debug)

\* C10's case: process() raised after the workspace was created, debug off.
C10_Witness ==
    /\ pc = "raised"
    /\ error = "ValueError"
    /\ ~config.debug
    /\ ~workdir

\* C11: no inference call is dispatched or started before rendering has
\* finished; no ticket-create call is dispatched, started or sent before every
\* analysis call of the batch has ended, in success or in failure; no
\* attachment upload is dispatched, started or sent before every ticket-create
\* call has ended.
C11_StageBarriers ==
    /\ analyze_tasks # <<>>
       => /\ pc \notin {"convert", "extract"}
          /\ {analyze_tasks[i].slide_num : i \in DOMAIN analyze_tasks} = Range(slide_images)
    /\ (create_tasks # <<>> \/ \E p \in BagToSet(jira_posts) : p.op = "create")
       => /\ analyze_tasks # <<>>
          /\ \A i \in DOMAIN analyze_tasks : analyze_tasks[i].state \in {"ok", "failed"}
    /\ (attach_tasks # <<>> \/ \E p \in BagToSet(jira_posts) : p.op = "attach")
       => /\ create_tasks # <<>>
          /\ \A i \in DOMAIN create_tasks :
               create_tasks[i].state \in {"ok", "failed", "rejected"}

\* C11's case: an upload is in flight after a batch of three analysis calls of
\* which one failed and a batch of two create calls of which one failed.
C11_Witness ==
    /\ pc = "attaching"
    /\ \E k \in DOMAIN attach_tasks : attach_tasks[k].state = "inflight"
    /\ Len(analyze_tasks) = 3
    /\ \E i \in DOMAIN analyze_tasks : analyze_tasks[i].state = "failed"
    /\ \E i \in DOMAIN create_tasks : create_tasks[i].state = "failed"

\* C12: when the classifier finds no issue slide in a deck it could read,
\* process() returns the empty list straight from Step 1: it never stands at a
\* later step, nothing is rendered, no inference call and no ticket-store call
\* is made.
C12_EmptyShortCircuit ==
    (IssueSet = {} /\ pc \notin {"start", "classify"} /\ error # "DeckReadError")
    => /\ pc = "returned"
       /\ results = <<>>
       /\ slide_images = <<>>
       /\ analyze_tasks = <<>> /\ create_tasks = <<>> /\ attach_tasks = <<>>
       /\ jira_posts = EmptyBag

\* C12's case: a deck without issue slides was classified and process() returned.
C12_Witness ==
    /\ IssueSet = {}
    /\ pc = "returned"
    /\ issue_slides = <<>>
    /\ exit_code = "0"

\* C13: every attachment upload belongs to an analysis of the list that has a
\* ticket key and whose slide number is a key of slide_images, it goes to that
\* ticket, and it is sent once; an attach task exists only for such an
\* analysis, and no two tasks are for the same analysis.
C13_AttachEligibility ==
    /\ \A p \in BagToSet(jira_posts) :
         p.op = "attach"
         => /\ CopiesIn(p, jira_posts) = 1
            /\ p.slide \in Range(slide_images)
            /\ \E k \in DOMAIN analyses :
                 /\ analyses[k].slide_number = p.slide
                 /\ Truthy(analyses[k].jira_key)
                 /\ analyses[k].jira_key = p.issue_key
    /\ \A k \in DOMAIN attach_tasks :
         /\ Truthy(analyses[attach_tasks[k].idx].jira_key)
         /\ analyses[attach_tasks[k].idx].slide_number \in Range(slide_images)
         /\ \A m \in DOMAIN attach_tasks : attach_tasks[m].idx = attach_tasks[k].idx => m = k

\* C13's case: the batch returned after one upload, beside an analysis with a
\* ticket but no rendered image and an analysis with an image but no ticket.
C13_Witness ==
    /\ pc = "returned"
    /\ \E p \in BagToSet(jira_posts) : p.op = "attach"
    /\ \E k \in DOMAIN analyses :
         Truthy(analyses[k].jira_key) /\ analyses[k].slide_number \notin Range(slide_images)
    /\ \E k \in DOMAIN analyses :
         ~Truthy(analyses[k].jira_key) /\ analyses[k].slide_number \in Range(slide_images)

\* C14: while attach_images_batch runs, whatever uploads fail, it does not
\* raise and no record of the list changes (no ticket key is cleared or
\* replaced); when it returns, attach_image has run to its end for every
\* eligible analysis, returning normally, and the upload was sent for every one
\* whose file could be read.
C14_BestEffortAttach ==
    [][pc = "attaching"
       => /\ pc' \in {"attaching", "returned"}
          /\ error' = None
          /\ analyses' = analyses
          /\ pc' = "returned"
             => /\ results' = analyses
                /\ \A k \in DOMAIN attach_tasks :
                     /\ attach_tasks[k].state \in AttachOutcomes
                     /\ attach_tasks[k].state # "read_failed"
                        => BagIn(AttachRequest(analyses[attach_tasks[k].idx]), jira_posts)]_vars

\* C14's case: the batch returned after one upload failed at the file read,
\* one at the POST, and one succeeded.
C14_Witness ==
    /\ pc = "returned"
    /\ \E k \in DOMAIN attach_tasks : attach_tasks[k].state = "read_failed"
    /\ \E k \in DOMAIN attach_tasks : attach_tasks[k].state = "post_failed"
    /\ \E k \in DOMAIN attach_tasks : attach_tasks[k].state = "ok"
    /\ \A k \in DOMAIN results : Truthy(results[k].jira_key)

\* The ticket key of the record of slide s in a list of records, None when the
\* list has no record of s.
KeyOf(list, s) ==
    IF \E k \in DOMAIN list : list[k].slide_number = s
    THEN list[CHOOSE k \in DOMAIN list : list[k].slide_number = s].jira_key
    ELSE None

\* C15: a record is created without a ticket key and has none before the
\* create stage; a record's key changes only from absent to present, in the
\* step in which its own create call succeeds; process() returns the records
\* with the keys they then have, and what was returned is not touched again.
C15_WriteOnceTicketKey ==
    [][/\ \A i \in DOMAIN analyze_tasks' :
            analyze_tasks'[i].state = "ok" => analyze_tasks'[i].result.jira_key = None
       /\ pc' \in {"analyzing", "create"}
          => \A k \in DOMAIN analyses' : analyses'[k].jira_key = None
       /\ \A s \in 1..NumSlides :
            /\ KeyOf(analyses', s) # KeyOf(analyses, s)
               => /\ KeyOf(analyses, s) = None
                  /\ pc = "creating"
                  /\ \E i \in DOMAIN create_tasks :
                       /\ analyses[i].slide_number = s
                       /\ create_tasks[i].state = "inflight"
                       /\ create_tasks'[i].state = "ok"
            /\ (pc # "returned" /\ pc' = "returned") => KeyOf(results', s) = KeyOf(analyses', s)
            /\ pc = "returned" => results' = results]_vars

\* C15's case: the summary was printed for a run that returned a record with a
\* ticket key, after an upload, and a record whose create call failed.
C15_Witness ==
    /\ pc = "returned"
    /\ exit_code = "0"
    /\ \E k \in DOMAIN results : Truthy(results[k].jira_key)
    /\ \E k \in DOMAIN results : results[k].jira_key = None
    /\ \E p \in BagToSet(jira_posts) : p.op = "attach"

\* C16: once the conversion has failed, by a timeout, a nonzero exit, a missing
\* executable or a missing output file, process() has raised the error, no
\* inference call and no ticket-store call was or is made, the workspace is
\* gone unless debug is on, and async_main, when it returns, returns 1 and has
\* printed no summary.
C16_FatalConversion ==
    conversion \in ConvertOutcomes \ {"ok"}
    => /\ pc = "raised"
       /\ error = "RuntimeError"
       /\ analyze_tasks = <<>> /\ create_tasks = <<>> /\ attach_tasks = <<>>
       /\ jira_posts = EmptyBag
       /\ ~config.debug => ~workdir
       /\ exit_code \in {None, "1"}
       /\ ~summary_printed

\* C16's case: the output file was missing, debug off, and async_main returned 1.
C16_Witness ==
    /\ conversion = "no_output_file"
    /\ ~config.debug
    /\ ~config.dry_run
    /\ exit_code = "1"

\* A detector pattern of the list matches the text.
DetectorMatches(detector_patterns, slide_text) ==
    \E p \in DOMAIN detector_patterns : ReSearch(detector_patterns[p], slide_text)

\* The routing rules, by position in the declaration, that match the text.
MatchingRules(slide_text) ==
    {r \in DOMAIN ISSUE_PROJECT_RULES : ReSearch(ISSUE_PROJECT_RULES[r][1], slide_text)}

\* The key of the matching rule declared before every other matching rule.
EarliestRuleKey(slide_text) ==
    ISSUE_PROJECT_RULES[CHOOSE r \in MatchingRules(slide_text) :
                            \A q \in MatchingRules(slide_text) : r <= q][2]

\* C17: a slide text that matches a detector and two or more routing rules is
\* emitted with the key of the earliest-declared matching rule, whatever the
\* order of its lines: "db issue:" beside "issue:" gives DB, "issue:" beside
\* "coj issue:" gives the key of the "issue:" rule.
C17_RulePrecedence ==
    (/\ pc = "found"
     /\ DetectorMatches(patterns, deck[1])
     /\ Cardinality(MatchingRules(deck[1])) >= 2)
    => /\ Len(issue_slides) = 1
       /\ issue_slides[1][3] = EarliestRuleKey(deck[1])
       /\ Range(deck[1]) = {"db issue:", "issue:"} => issue_slides[1][3] = "DB"
       /\ Range(deck[1]) = {"issue:", "coj issue:"} => issue_slides[1][3] = "AP"

\* C17's case: a "coj issue:" line above an "issue:" line was routed to AP.
C17_Witness ==
    /\ pc = "found"
    /\ deck[1] = <<"coj issue:", "issue:">>
    /\ Len(issue_slides) = 1
    /\ issue_slides[1][3] = "AP"

\* C18: a slide text that no pattern of the detector matches is classified
\* None and not emitted, even when a routing rule matches it.
C18_NoDetectorNoIssue ==
    (pc = "found" /\ ~DetectorMatches(patterns, deck[1]))
    => /\ issue_slides = <<>>
       /\ DetectIssueAndProject(patterns, deck[1]) = None

\* C18's case: a custom detector for "bug:" lines passed over a text with an
\* "issue:" line, which a routing rule matches.
C18_Witness ==
    /\ pc = "found"
    /\ patterns = <<"bug:">>
    /\ \E i \in DOMAIN deck[1] : deck[1][i] = "issue:"
    /\ MatchingRules(deck[1]) # {}
    /\ issue_slides = <<>>

\* C19: for the default and for every custom pattern list, a text that a
\* detector matches is emitted with a key that is not None: the first matching
\* routing rule's key, or DEFAULT_PROJECT_KEY when no rule matches; a text is
\* left out (classified None) only when no detector matches it.
C19_IssueHasProject ==
    pc = "found"
    => /\ DetectorMatches(patterns, deck[1])
          => /\ Len(issue_slides) = 1
             /\ issue_slides[1][1] = 1
             /\ issue_slides[1][3] # None
             /\ issue_slides[1][3] =
                  (IF MatchingRules(deck[1]) # {} THEN EarliestRuleKey(deck[1])
                   ELSE DEFAULT_PROJECT_KEY)
       /\ issue_slides = <<>> => ~DetectorMatches(patterns, deck[1])

\* C19's case: a custom detector matched a text that no routing rule matches,
\* and the slide got the default key.
C19_Witness ==
    /\ pc = "found"
    /\ patterns = <<"todo:">>
    /\ MatchingRules(deck[1]) = {}
    /\ Len(issue_slides) = 1
    /\ issue_slides[1][3] = "AP"

\* The text has a "{" somewhere before a "}".
HasBracePair(content) ==
    \E i, j \in DOMAIN content : i < j /\ content[i] = "{" /\ content[j] = "}"

\* The text from its first "{" to its last "}", for a text that has the pair.
BraceSpan(content) ==
    LET first == CHOOSE i \in DOMAIN content :
                     content[i] = "{" /\ \A k \in 1..(i - 1) : content[k] # "{"
        last == CHOOSE j \in DOMAIN content :
                    content[j] = "}" /\ \A k \in (j + 1)..Len(content) : content[k] # "}"
    IN SubSeq(content, first, last)

\* An inference output with no brace pair, or whose brace span is not JSON.
Malformed(content) == ~HasBracePair(content) \/ ~JsonDecodes(BraceSpan(content))

\* C20: when the inference output for a slide has no "{" ... "}" pair, or its
\* first-"{"-to-last-"}" substring is not JSON, the slide's analysis has the
\* title "Issue from Slide n", the raw output as its description, priority
\* "Medium", issue type "Task" and the one label "slide-n"; the analysis is
\* in the list the batch returns, and the batch does not raise.
C20_MalformedFallback ==
    \A i \in DOMAIN analyze_tasks :
        LET n == analyze_tasks[i].slide_num
            a == analyze_tasks[i].result
        IN (Malformed(responses[n]) /\ analyze_tasks[i].state = "ok")
           => /\ a.slide_number = n
              /\ a.title = TitleFromSlide(n)
              /\ a.description = responses[n]
              /\ a.priority = "Medium"
              /\ a.issue_type = "Task"
              /\ a.labels = <<SlideLabel(n)>>
              /\ pc # "raised"
              /\ error = None
              /\ pc = "batch_returned" => \E k \in DOMAIN analyses : analyses[k] = a

\* C20's case: the batch returned the analysis of a slide whose output was
\* prose around a brace span that is not JSON.
C20_Witness ==
    /\ pc = "batch_returned"
    /\ \E k \in DOMAIN analyses :
         /\ HasBracePair(responses[analyses[k].slide_number])
         /\ Malformed(responses[analyses[k].slide_number])
         /\ analyses[k].description = responses[analyses[k].slide_number]
         /\ analyses[k].priority = "Medium"

\* C21: in every state of a run the slides with a rendered image are among
\* the slides the classifier emitted; the analyses, finished or returned, are
\* of slides with a rendered image, one analysis per slide at most; and every
\* create or attach call, queued, in flight or sent, is for a slide that has
\* an analysis.
C21_KeyConsistency ==
    /\ Range(slide_images) \subseteq {issue_slides[k][1] : k \in DOMAIN issue_slides}
    /\ Range(SlideNumbers(analyses)) \subseteq Range(slide_images)
    /\ \A j, k \in DOMAIN analyses :
         analyses[j].slide_number = analyses[k].slide_number => j = k
    /\ \A i \in DOMAIN analyze_tasks :
         /\ analyze_tasks[i].slide_num \in Range(slide_images)
         /\ analyze_tasks[i].state = "ok"
            => analyze_tasks[i].result.slide_number = analyze_tasks[i].slide_num
    /\ DOMAIN create_tasks \subseteq DOMAIN analyses
    /\ \A k \in DOMAIN attach_tasks : attach_tasks[k].idx \in DOMAIN analyses
    /\ \A post \in BagToSet(jira_posts) : post.slide \in Range(SlideNumbers(analyses))

\* C21's case: of three slides the classifier emitted two, one of them was
\* rendered, and its image was attached to its ticket.
C21_Witness ==
    /\ Cardinality(IssueSet) = 2
    /\ Len(slide_images) = 1
    /\ Len(analyses) = 1
    /\ \E post \in BagToSet(jira_posts) :
         post.op = "attach" /\ post.slide = slide_images[1]

\* The record analyze_slide builds for slide n from the batch's inputs.
RecordOf(n) ==
    AnalyzeSlide(config.project_key, responses[n], n,
                 PredeterminedProject(slide_project_mapping, n))

\* The positions in slide_images of the slides whose inference call did not fail.
Survivors == Ascending({i \in DOMAIN analyze_tasks : analyze_tasks[i].state # "failed"})

\* C22: the list analyze_slides_batch returns is fixed by its inputs and by
\* the set of failing calls: the records of the surviving slides in the order
\* of slide_images, whatever the order in which the calls finished.
C22_DeterministicBatch ==
    pc = "batch_returned"
    => analyses = [k \in DOMAIN Survivors |-> RecordOf(slide_images[Survivors[k]])]

\* C22's case: the batch returned two records whose calls finished in the
\* opposite order, a later slide before an earlier one.
C22_Witness ==
    /\ pc = "batch_returned"
    /\ Len(analyses) >= 2
    /\ \E j, k \in DOMAIN completion_order :
         /\ j < k
         /\ completion_order[j] > completion_order[k]
         /\ analyze_tasks[completion_order[j]].state = "ok"
         /\ analyze_tasks[completion_order[k]].state = "ok"

\* The tasks of a stage that are still queued or in flight.
Pending(tasks) == {i \in DOMAIN tasks : tasks[i].state \in {"queued", "inflight"}}

\* Task i of a stage has been dispatched and waits for a slot.
Queued(tasks, i) == i \in DOMAIN tasks /\ tasks[i].state = "queued"

\* C23: with N >= 1 and every external call returning or failing in the end,
\* each batch stage returns, every dispatched item leaves the queue, and once
\* a stage has returned none of its items is queued or in flight, failed
\* items included.
C23_BatchCompletion ==
    /\ (pc = "analyzing") ~> (pc # "analyzing")
    /\ (pc = "creating") ~> (pc # "creating")
    /\ (pc = "attaching") ~> (pc # "attaching")
    /\ \A i \in 1..NumSlides :
         /\ Queued(analyze_tasks, i) ~> ~Queued(analyze_tasks, i)
         /\ Queued(create_tasks, i) ~> ~Queued(create_tasks, i)
         /\ Queued(attach_tasks, i) ~> ~Queued(attach_tasks, i)
    /\ [](pc # "analyzing" => Pending(analyze_tasks) = {})
    /\ [](pc # "creating" => Pending(create_tasks) = {})
    /\ [](pc # "attaching" => Pending(attach_tasks) = {})

\* C23's case: a run with more slides than slots came to its end after an
\* inference call, a ticket creation and an attachment had failed.
C23_Witness ==
    /\ pc = "returned"
    /\ Len(analyze_tasks) > config.max_concurrent_requests
    /\ \E i \in DOMAIN analyze_tasks : analyze_tasks[i].state = "failed"
    /\ \E i \in DOMAIN create_tasks : create_tasks[i].state = "failed"
    /\ \E k \in DOMAIN attach_tasks : attach_tasks[k].state = "post_failed"

\* C24: once find_issue_slides has run over a readable deck, what it emitted
\* is exactly the slides whose classification is not None, each once, with its
\* 1-based position in the deck as index, the slide at that position and its
\* classification, in strictly increasing order of index.
C24_ClassifierOrdering ==
    (pc \notin {"start", "classify"} /\ error # "DeckReadError")
    => /\ {issue_slides[k][1] : k \in DOMAIN issue_slides} = IssueSet
       /\ Len(issue_slides) = Cardinality(IssueSet)
       /\ \A j, k \in DOMAIN issue_slides : j < k => issue_slides[j][1] < issue_slides[k][1]
       /\ \A k \in DOMAIN issue_slides :
            /\ issue_slides[k][2] = deck[issue_slides[k][1]]
            /\ issue_slides[k][3] = DetectIssueAndProject(patterns, deck[issue_slides[k][1]])

\* C24's case: the first slide is not an issue and the two after it are; they
\* were emitted as slides 2 and 3.
C24_Witness ==
    /\ pc \notin {"start", "classify"}
    /\ 1 \notin IssueSet
    /\ Len(issue_slides) = 2
    /\ issue_slides[1][1] = 2
    /\ issue_slides[2][1] = 3

\* C25: extract_slide_images returns a map whose keys are exactly the slides
\* asked for that lie within the PDF's page count and whose own extraction
\* succeeded, each once; a slide beyond the page count or one whose extraction
\* fails costs only its own entry, and neither makes the call raise.
C25_RenderIsolation ==
    /\ pc = "extracted"
       => /\ Range(slide_images) =
               {n \in Range(issue_slide_numbers) : n <= pdf_pages /\ n \notin failing_pages}
          /\ \A j, k \in DOMAIN slide_images : slide_images[j] = slide_images[k] => j = k
          /\ error = None
    /\ pc = "extract_raised" => error = "PdfOpenError"

\* C25's case: the first slide asked for could not be rendered, and the
\* second one is in the map all the same.
C25_Witness ==
    /\ pc = "extracted"
    /\ Len(issue_slide_numbers) = 2
    /\ \/ issue_slide_numbers[1] > pdf_pages
       \/ issue_slide_numbers[1] \in failing_pages
    /\ slide_images = <<issue_slide_numbers[2]>>

\* The qualities at which the loop saved the image: from 85 down to the
\* quality of the file on disk.
Tried == {q \in Qualities : file_quality # 0 /\ q >= file_quality}

\* C26: the loop encodes first at quality 85 and never below the floor 60; it
\* ends, and when it has ended the file on disk is the one of the first
\* quality, going down by 10 from 85, whose size is within the limit, or,
\* when no quality tried is within the limit, the one encoded at the floor 60.
C26_SizeBoundedEncoding ==
    /\ file_quality # 0 => file_quality >= MIN_JPEG_QUALITY
    /\ pc = "optimized"
       => /\ DEFAULT_JPEG_QUALITY \in Tried
          /\ \A q \in Tried \ {file_quality} : encoded_size[q] > config.max_image_size_mb
          /\ (\A q \in Tried : encoded_size[q] > config.max_image_size_mb)
             => file_quality = MIN_JPEG_QUALITY

\* C27: when the rendering left no slide image, the run starts no inference
\* call, sends nothing to the ticket store and returns the empty list; and
\* while there is no analysis the File and Attach stages are not entered and
\* nothing is sent to the ticket store.
C27_EmptyOutputGating ==
    /\ (pc \notin {"convert", "extract", "raised"} /\ slide_images = <<>>)
       => /\ analyze_tasks = <<>>
          /\ analyses = <<>>
          /\ jira_posts = EmptyBag
          /\ pc = "returned" => results = <<>>
    /\ analyses = <<>>
       => /\ pc \notin {"create", "creating", "attach", "attaching"}
          /\ create_tasks = <<>>
          /\ attach_tasks = <<>>
          /\ jira_posts = EmptyBag

\* C27's case: a run that files tickets converted the deck, rendered none of
\* the slides asked for, and returned.
C27_Witness ==
    /\ pc = "returned"
    /\ ~config.dry_run
    /\ conversion = "ok"
    /\ issue_slide_numbers # <<>>
    /\ slide_images = <<>>
    /\ results = <<>>
    /\ jira_posts = EmptyBag

\* C28: a batch that has been dispatched with at least one item runs under a
\* concurrency limit of at least 1, and is never in the state where every
\* item waits for a slot that no item in flight can give back.
C28_LimitAtLeastOne ==
    (pc = "analyzing" /\ analyze_tasks # <<>>)
    => /\ config.max_concurrent_requests >= 1
       /\ ~(semaphore = 0 /\ \A i \in DOMAIN analyze_tasks : Queued(analyze_tasks, i))

\* C29: through create_issues_batch and attach_images_batch every analysis
\* keeps its place in the list and every field it had when it was handed over,
\* the ticket key aside; and the labels of a submitted payload are the
\* record's labels followed by "slide-n".
C29_FilingFrame ==
    /\ Len(analyses) = Len(slide_images)
    /\ \A k \in DOMAIN analyses :
         [analyses[k] EXCEPT !.jira_key = None] =
            AnalyzeSlide(None, responses[slide_images[k]], slide_images[k], "AP")
    /\ \A post \in BagToSet(jira_posts) :
         post.op = "create"
         => \E k \in DOMAIN analyses :
              /\ analyses[k].slide_number = post.slide
              /\ post.labels = analyses[k].labels \o <<SlideLabel(post.slide)>>

\* C29's case: a record that came from the parse fallback, with the label
\* "slide-n" of its own, has been filed and its image attached.
C29_Witness ==
    /\ pc = "returned"
    /\ \E k \in DOMAIN analyses :
         /\ analyses[k].labels = <<SlideLabel(analyses[k].slide_number)>>
         /\ analyses[k].jira_key # None
         /\ BagIn(AttachRequest(analyses[k]), jira_posts)
         /\ \E post \in BagToSet(jira_posts) :
              /\ post.op = "create"
              /\ post.slide = analyses[k].slide_number
              /\ Len(post.labels) = 2

\* C30: when a run that is not in debug mode has been left, a workspace
\* directory that existed before the run is still there, and one the run
\* created is gone.
C30_WorkspaceOwnership ==
    (pc \in {"returned", "raised"} /\ ~config.debug) => (workdir <=> workdir_existed)

====
